---- MODULE Spec2Model ----
(***************************************************************************)
(* Relational JSON normalizer of dlt (dlt/common/normalizers/json/         *)
(* relational.py): one document is decomposed into a lazily produced       *)
(* stream of ((table, parent_table), row) pairs.                           *)
(*                                                                         *)
(* Python values are tagged records [t, s, items]:                         *)
(*   t = "int" | "str" | "none" | "dict" | "list"                          *)
(*   s = str(v) of a scalar                                                *)
(*   items = entries [k, v] of a dict (in insertion order) or of a list    *)
(*           (k = "")                                                      *)
(* A Python dict object (a row) is the sequence of its entries.            *)
(***************************************************************************)
EXTENDS Integers, Sequences, FiniteSets, TLC

VARIABLES schema, document, load_id, source_event, status, extend, stack, out, seen,
          extended,
          _session_query, _client, transactions, committed, rolled_back, next_session,
          sql_failed, issued, raised, depth, last

\* the BigQuerySqlClient, the server it talks to and the program that uses it
txvars == <<_session_query, _client, transactions, committed, rolled_back, next_session,
            sql_failed, issued, raised, depth, last>>

vars == <<schema, document, load_id, source_event, status, extend, stack, out, seen, extended,
          txvars>>

\* ------------------------------------------------------------------ bounds
\* longest generated list of the document corpus
MaxListLen == 2
\* number of distinct values uniq_id() can return
NumUniqIds == 2
\* number of extend_schema calls made on one schema
MaxExtendCalls == 3

\* ------------------------------------------------------------ Python values
Entry(k, v) == [k |-> k, v |-> v]

PyInt(n) == [t |-> "int", s |-> ToString(n), items |-> <<>>]

PyStr(s) == [t |-> "str", s |-> s, items |-> <<>>]

PyNone == [t |-> "none", s |-> "None", items |-> <<>>]

PyDict(items) == [t |-> "dict", s |-> "", items |-> items]

RECURSIVE ListItems(_)
ListItems(vs) ==
    IF vs = <<>> THEN <<>> ELSE <<Entry("", Head(vs))>> \o ListItems(Tail(vs))

PyList(vs) == [t |-> "list", s |-> "", items |-> ListItems(vs)]

\* isinstance(v, dict), isinstance(v, list)
IsDict(v) == v.t = "dict"

IsList(v) == v.t = "list"

\* Python truthiness of a value ("not v" is ~Truthy(v))
Truthy(v) ==
    CASE v.t = "none" -> FALSE
      [] v.t = "str"  -> v.s # ""
      [] v.t = "int"  -> v.s # "0"
      [] OTHER        -> v.items # <<>>

\* str(v): the decimal form of an int, the string itself, "None"; containers
\* are rendered entry by entry
RECURSIVE str(_)
RECURSIVE StrItems(_, _)
StrItems(items, withKeys) ==
    IF items = <<>> THEN ""
    ELSE (IF withKeys THEN "'" \o Head(items).k \o "': " ELSE "")
         \o (IF Head(items).v.t = "str" THEN "'" \o Head(items).v.s \o "'"
             ELSE str(Head(items).v))
         \o (IF Len(items) > 1 THEN ", " ELSE "")
         \o StrItems(Tail(items), withKeys)

str(v) ==
    CASE v.t = "dict" -> "{" \o StrItems(v.items, TRUE) \o "}"
      [] v.t = "list" -> "[" \o StrItems(v.items, FALSE) \o "]"
      [] OTHER        -> v.s

\* ------------------------------------------------------- dict operations
\* k in d
RECURSIVE DictHas(_, _)
DictHas(d, k) ==
    IF d = <<>> THEN FALSE
    ELSE IF Head(d).k = k THEN TRUE ELSE DictHas(Tail(d), k)

\* d.get(k, None)
RECURSIVE DictGet(_, _)
DictGet(d, k) ==
    IF d = <<>> THEN PyNone
    ELSE IF Head(d).k = k THEN Head(d).v ELSE DictGet(Tail(d), k)

\* d[k] = v : an existing key keeps its place, a new key goes last
RECURSIVE DictSet(_, _, _)
DictSet(d, k, v) ==
    IF d = <<>> THEN <<Entry(k, v)>>
    ELSE IF Head(d).k = k THEN <<Entry(k, v)>> \o Tail(d)
    ELSE <<Head(d)>> \o DictSet(Tail(d), k, v)

\* del d[k], d.pop(k, None)
RECURSIVE DictDel(_, _)
DictDel(d, k) ==
    IF d = <<>> THEN <<>>
    ELSE IF Head(d).k = k THEN Tail(d)
    ELSE <<Head(d)>> \o DictDel(Tail(d), k)

\* d.update(e)
RECURSIVE DictUpdate(_, _)
DictUpdate(d, e) ==
    IF e = <<>> THEN d
    ELSE DictUpdate(DictSet(d, Head(e).k, Head(e).v), Tail(e))

\* "_".join(map(str, d.values()))
RECURSIVE JoinValues(_)
JoinValues(d) ==
    IF d = <<>> THEN ""
    ELSE IF Len(d) = 1 THEN str(Head(d).v)
    ELSE str(Head(d).v) \o "_" \o JoinValues(Tail(d))

\* --------------------------------------------------------------- constants
PATH_SEPARATOR == "__"

DLT_METADATA_FIELD == "_dlt_meta"

\* parent_table of the root invocation (Python None)
NoTable == "<None>"

\* ---------------------------------------------- schema collaborator (dlt.common.schema)
\* snake-case name normalization of the schema, on the names of the corpus
normalize_column_name(k) ==
    CASE k = "Tags" -> "tags"
      [] k = "Id"   -> "id"
      [] OTHER      -> k

normalize_table_name(name) ==
    CASE name = "Users" -> "users"
      [] OTHER          -> name

\* schema._schema_tables.get(table, {}): the columns of a table, in order
TableColumns(sch, table) ==
    IF table \in DOMAIN sch.tables THEN sch.tables[table] ELSE <<>>

\* schema._schema_tables.get(table, {}).get(field_name, None); <<>> is None
RECURSIVE FindColumn(_, _)
FindColumn(cols, field_name) ==
    IF cols = <<>> THEN <<>>
    ELSE IF Head(cols).name = field_name THEN <<Head(cols)>>
    ELSE FindColumn(Tail(cols), field_name)

\* schema.get_preferred_type(field_name): type inferred from the name alone
get_preferred_type(sch, field_name) ==
    IF field_name \in sch.preferred THEN "complex" ELSE "<None>"

\* schema.filter_row_with_hint(table, "primary_key", row): the entries of the
\* row that are primary-key columns of the table, in the table's column order
RECURSIVE FilterPk(_, _)
FilterPk(cols, row) ==
    IF cols = <<>> THEN <<>>
    ELSE (IF Head(cols).primary_key /\ DictHas(row, Head(cols).name)
          THEN <<Entry(Head(cols).name, DictGet(row, Head(cols).name))>>
          ELSE <<>>)
         \o FilterPk(Tail(cols), row)

filter_row_with_hint(sch, table, row) == FilterPk(TableColumns(sch, table), row)

\* get_table_name(event) of dlt.common.sources
get_table_name(event) ==
    IF DictHas(event, DLT_METADATA_FIELD) /\ IsDict(DictGet(event, DLT_METADATA_FIELD))
    THEN DictGet(DictGet(event, DLT_METADATA_FIELD).items, "table_name")
    ELSE PyNone

\* ------------------------------------------------------------ the normalizer
\* digest128: a fixed-width collision-resistant digest, kept symbolic
digest128(s) == "#" \o s

\* uniq_id(): a fresh random string
UniqIds == {"u" \o ToString(i) : i \in 1..NumUniqIds}

_is_complex_type(sch, table, field_name) ==
    LET column == FindColumn(TableColumns(sch, table), field_name)
        data_type == IF column = <<>> THEN get_preferred_type(sch, field_name)
                     ELSE column[1].data_type
    IN  data_type = "complex"

RECURSIVE norm_row_dicts(_, _, _, _, _)
norm_row_dicts(sch, table, dict_row, parent_name, out_rec_row) ==
    IF dict_row = <<>> THEN out_rec_row
    ELSE
      LET k == Head(dict_row).k
          v == Head(dict_row).v
          corrected_k == normalize_column_name(k)
          child_name == IF parent_name = "" THEN corrected_k
                        ELSE parent_name \o PATH_SEPARATOR \o corrected_k
          out1 == IF IsDict(v)
                  THEN IF _is_complex_type(sch, table, child_name)
                       THEN DictSet(out_rec_row, child_name, v)
                       ELSE norm_row_dicts(sch, table, v.items, child_name, out_rec_row)
                  ELSE DictSet(out_rec_row, child_name, v)
      IN  norm_row_dicts(sch, table, Tail(dict_row), parent_name, out1)

\* _flatten that names a nested field by its own key alone
RECURSIVE norm_row_dicts_NoPrefix(_, _, _, _, _)
norm_row_dicts_NoPrefix(sch, table, dict_row, parent_name, out_rec_row) ==
    IF dict_row = <<>> THEN out_rec_row
    ELSE
      LET k == Head(dict_row).k
          v == Head(dict_row).v
          child_name == normalize_column_name(k)
          out1 == IF IsDict(v)
                  THEN IF _is_complex_type(sch, table, child_name)
                       THEN DictSet(out_rec_row, child_name, v)
                       ELSE norm_row_dicts_NoPrefix(sch, table, v.items, child_name, out_rec_row)
                  ELSE DictSet(out_rec_row, child_name, v)
      IN  norm_row_dicts_NoPrefix(sch, table, Tail(dict_row), parent_name, out1)

_flatten_NoPrefix(sch, table, dict_row) ==
    norm_row_dicts_NoPrefix(sch, table, dict_row, "", <<>>)

\* _flatten that hoists every mapping, complex or not
RECURSIVE norm_row_dicts_NoComplex(_, _, _, _, _)
norm_row_dicts_NoComplex(sch, table, dict_row, parent_name, out_rec_row) ==
    IF dict_row = <<>> THEN out_rec_row
    ELSE
      LET k == Head(dict_row).k
          v == Head(dict_row).v
          corrected_k == normalize_column_name(k)
          child_name == IF parent_name = "" THEN corrected_k
                        ELSE parent_name \o PATH_SEPARATOR \o corrected_k
          out1 == IF IsDict(v)
                  THEN norm_row_dicts_NoComplex(sch, table, v.items, child_name, out_rec_row)
                  ELSE DictSet(out_rec_row, child_name, v)
      IN  norm_row_dicts_NoComplex(sch, table, Tail(dict_row), parent_name, out1)

_flatten_NoComplex(sch, table, dict_row) ==
    norm_row_dicts_NoComplex(sch, table, dict_row, "", <<>>)

_flatten(sch, table, dict_row) == norm_row_dicts(sch, table, dict_row, "", <<>>)

\* _get_child_row_hash that leaves the list position out of the digest
_get_child_row_hash_NoPos(parent_hash, child_table, list_pos) ==
    digest128(str(parent_hash) \o "_" \o child_table)

_get_child_row_hash(parent_hash, child_table, list_pos) ==
    digest128(str(parent_hash) \o "_" \o child_table \o "_" \o ToString(list_pos))

_get_content_hash(uid) == digest128(uid)

\* _append_child_meta of _normalize_row; _hash is unused by the code
_append_child_meta(_row, ext, _p_hash, _p_pos) ==
    DictUpdate(DictSet(DictSet(_row, "_parent_hash", _p_hash), "_pos", PyInt(_p_pos)), ext)

\* ResolveRecordHash with a root row that ignores its primary key
ResolveRecordHash_RandomRoot(sch, ext, flattened_row, table, is_top_level, parent_hash, pos, uid) ==
    LET forwarded == DictGet(flattened_row, "_record_hash")
        primary_key == filter_row_with_hint(sch, table, flattened_row)
    IN  IF Truthy(forwarded)
        THEN [record_hash |-> forwarded, row |-> flattened_row]
        ELSE IF is_top_level
        THEN LET h == PyStr(_get_content_hash(uid))
             IN  [record_hash |-> h, row |-> DictSet(flattened_row, "_record_hash", h)]
        ELSE IF primary_key # <<>>
        THEN LET h == PyStr(digest128(JoinValues(primary_key)))
             IN  [record_hash |-> h, row |-> DictSet(flattened_row, "_record_hash", h)]
        ELSE LET h == PyStr(_get_child_row_hash(parent_hash, table, pos))
                 linked == _append_child_meta(flattened_row, ext, parent_hash, pos)
             IN  [record_hash |-> h, row |-> DictSet(linked, "_record_hash", h)]

\* ResolveRecordHash with the child-row hash tried before the primary key
ResolveRecordHash_ChildFirst(sch, ext, flattened_row, table, is_top_level, parent_hash, pos, uid) ==
    LET forwarded == DictGet(flattened_row, "_record_hash")
        primary_key == filter_row_with_hint(sch, table, flattened_row)
    IN  IF Truthy(forwarded)
        THEN [record_hash |-> forwarded, row |-> flattened_row]
        ELSE IF ~is_top_level
        THEN LET h == PyStr(_get_child_row_hash(parent_hash, table, pos))
                 linked == _append_child_meta(flattened_row, ext, parent_hash, pos)
             IN  [record_hash |-> h, row |-> DictSet(linked, "_record_hash", h)]
        ELSE IF primary_key # <<>>
        THEN LET h == PyStr(digest128(JoinValues(primary_key)))
             IN  [record_hash |-> h, row |-> DictSet(flattened_row, "_record_hash", h)]
        ELSE LET h == PyStr(_get_content_hash(uid))
             IN  [record_hash |-> h, row |-> DictSet(flattened_row, "_record_hash", h)]

\* ResolveRecordHash with the primary key tried before the forwarded id
ResolveRecordHash_KeyFirst(sch, ext, flattened_row, table, is_top_level, parent_hash, pos, uid) ==
    LET forwarded == DictGet(flattened_row, "_record_hash")
        primary_key == filter_row_with_hint(sch, table, flattened_row)
    IN  IF primary_key # <<>>
        THEN LET h == PyStr(digest128(JoinValues(primary_key)))
             IN  [record_hash |-> h, row |-> DictSet(flattened_row, "_record_hash", h)]
        ELSE IF Truthy(forwarded)
        THEN [record_hash |-> forwarded, row |-> flattened_row]
        ELSE IF ~is_top_level
        THEN LET h == PyStr(_get_child_row_hash(parent_hash, table, pos))
                 linked == _append_child_meta(flattened_row, ext, parent_hash, pos)
             IN  [record_hash |-> h, row |-> DictSet(linked, "_record_hash", h)]
        ELSE LET h == PyStr(_get_content_hash(uid))
             IN  [record_hash |-> h, row |-> DictSet(flattened_row, "_record_hash", h)]

\* ResolveRecordHash that keeps any forwarded id but None ("is None" in place
\* of "not record_hash")
ResolveRecordHash_KeepBlank(sch, ext, flattened_row, table, is_top_level, parent_hash, pos, uid) ==
    LET forwarded == DictGet(flattened_row, "_record_hash")
        primary_key == filter_row_with_hint(sch, table, flattened_row)
    IN  IF forwarded # PyNone
        THEN [record_hash |-> forwarded, row |-> flattened_row]
        ELSE IF primary_key # <<>>
        THEN LET h == PyStr(digest128(JoinValues(primary_key)))
             IN  [record_hash |-> h, row |-> DictSet(flattened_row, "_record_hash", h)]
        ELSE IF ~is_top_level
        THEN LET h == PyStr(_get_child_row_hash(parent_hash, table, pos))
                 linked == _append_child_meta(flattened_row, ext, parent_hash, pos)
             IN  [record_hash |-> h, row |-> DictSet(linked, "_record_hash", h)]
        ELSE LET h == PyStr(_get_content_hash(uid))
             IN  [record_hash |-> h, row |-> DictSet(flattened_row, "_record_hash", h)]

\* "infer record hash or leave existing primary key if present": the record
\* hash of a flattened row and the row with its identity fields set
ResolveRecordHash(sch, ext, flattened_row, table, is_top_level, parent_hash, pos, uid) ==
    LET forwarded == DictGet(flattened_row, "_record_hash")
        primary_key == filter_row_with_hint(sch, table, flattened_row)
    IN  IF Truthy(forwarded)
        THEN [record_hash |-> forwarded, row |-> flattened_row]
        ELSE IF primary_key # <<>>
        THEN LET h == PyStr(digest128(JoinValues(primary_key)))
             IN  [record_hash |-> h, row |-> DictSet(flattened_row, "_record_hash", h)]
        ELSE IF ~is_top_level
        THEN LET h == PyStr(_get_child_row_hash(parent_hash, table, pos))
                 linked == _append_child_meta(flattened_row, ext, parent_hash, pos)
             IN  [record_hash |-> h, row |-> DictSet(linked, "_record_hash", h)]
        ELSE LET h == PyStr(_get_content_hash(uid))
             IN  [record_hash |-> h, row |-> DictSet(flattened_row, "_record_hash", h)]

\* "if _root_hash propagation requested and we are at the top level then
\* update extend"
PropagateRootHash(ext, record_hash, is_top_level) ==
    IF DictHas(ext, "_root_hash") /\ DictGet(ext, "_root_hash") = PyNone /\ is_top_level
    THEN DictSet(ext, "_root_hash", record_hash)
    ELSE ext

\* ListFields that stops at the first list field
RECURSIVE ListFields_FirstOnly(_)
ListFields_FirstOnly(row) ==
    IF row = <<>> THEN <<>>
    ELSE IF IsList(Head(row).v) THEN <<Head(row).k>> ELSE ListFields_FirstOnly(Tail(row))

\* ListFields that visits the list fields last to first
RECURSIVE ListFields_Reversed(_)
ListFields_Reversed(row) ==
    IF row = <<>> THEN <<>>
    ELSE ListFields_Reversed(Tail(row)) \o (IF IsList(Head(row).v) THEN <<Head(row).k>> ELSE <<>>)

\* lists = [k for k in flattened_row if isinstance(flattened_row[k], list)]
RECURSIVE ListFields(_)
ListFields(row) ==
    IF row = <<>> THEN <<>>
    ELSE (IF IsList(Head(row).v) THEN <<Head(row).k>> ELSE <<>>) \o ListFields(Tail(row))

\* RemoveChildList that keeps the field of an empty list
RemoveChildList_KeepEmpty(sch, table, flattened_row, k) ==
    IF ~_is_complex_type(sch, table, k) /\ DictGet(flattened_row, k).items # <<>>
    THEN DictDel(flattened_row, k)
    ELSE flattened_row

\* "remove child list": flattened_row after the elements of flattened_row[k]
\* have been processed (lines 152-154)
RemoveChildList(sch, table, flattened_row, k) ==
    IF ~_is_complex_type(sch, table, k)
    THEN DictDel(flattened_row, k)
    ELSE flattened_row

\* One generator object of normalize() is the record g:
\*   stack  the suspended _normalize_row invocations, innermost last; a frame
\*          holds the invocation's locals: table, parent_table, record_hash,
\*          ix (its flattened_row is the object out[ix].row), pc ("row": at
\*          the yield of line 131, "list": at a yield inside the loops),
\*          lists, li (index into lists of the current k), idx (elements of
\*          flattened_row[k] already taken)
\*   out    the pairs yielded so far; row is the yielded dict object as it
\*          now is, call records the arguments of the invocation that
\*          yielded it (src: dict_row or the scalar element, parent_ix: the
\*          place in out of the parent invocation's row)
\*   seen   the rows as they were when they were yielded
\*   extend the propagation dict shared by all invocations of the call
\* Yield of a row from which the list fields were taken out beforehand
RECURSIVE WithoutLists(_)
WithoutLists(row) ==
    IF row = <<>> THEN <<>>
    ELSE (IF IsList(Head(row).v) THEN <<>> ELSE <<Head(row)>>) \o WithoutLists(Tail(row))

Yield_NoLists(g, table, parent_table, row, call) ==
    [g EXCEPT !.out = Append(@, [table |-> table, parent_table |-> parent_table,
                                 row |-> WithoutLists(row), call |-> call]),
              !.seen = Append(@, WithoutLists(row)),
              !.status = "suspended"]

Yield(g, table, parent_table, row, call) ==
    [g EXCEPT !.out = Append(@, [table |-> table, parent_table |-> parent_table,
                                 row |-> row, call |-> call]),
              !.seen = Append(@, row),
              !.status = "suspended"]

\* _normalize_row from its entry to the yield of its own row (lines 103-131)
_normalize_row(g, sch, dict_row, table, parent_table, parent_hash, pos, parent_ix, uid) ==
    LET is_top_level == parent_table = NoTable
        flattened_row == _flatten(sch, table, dict_row)
        r == ResolveRecordHash(sch, g.extend, flattened_row, table, is_top_level,
                               parent_hash, pos, uid)
        ext == PropagateRootHash(g.extend, r.record_hash, is_top_level)
        frame == [table |-> table, parent_table |-> parent_table,
                  record_hash |-> r.record_hash, ix |-> Len(g.out) + 1,
                  pc |-> "row", lists |-> <<>>, li |-> 1, idx |-> 0]
        g1 == [g EXCEPT !.extend = ext, !.stack = Append(@, frame)]
    IN  Yield(g1, table, parent_table, r.row,
              [src |-> PyDict(dict_row), parent_hash |-> parent_hash, pos |-> pos,
               parent_ix |-> parent_ix, kind |-> "dict"])

\* _normalize_row resumed after a yield, up to the next yield, the raise or
\* the return of the outermost invocation (lines 133-154)
RECURSIVE ExpandLists(_, _, _)
ExpandLists(g, sch, uid) ==
    IF g.stack = <<>> THEN [g EXCEPT !.status = "done"]
    ELSE
      LET n == Len(g.stack)
          f0 == g.stack[n]
          flattened_row == g.out[f0.ix].row
          f == IF f0.pc = "row"
               THEN [f0 EXCEPT !.pc = "list", !.lists = ListFields(flattened_row)]
               ELSE f0
      IN  IF f.li > Len(f.lists)
          THEN ExpandLists([g EXCEPT !.stack = SubSeq(@, 1, n - 1)], sch, uid)
          ELSE
            LET k == f.lists[f.li]
                child_table == f.table \o PATH_SEPARATOR \o k
                elems == DictGet(flattened_row, k).items
            IN  IF f.idx < Len(elems)
                THEN
                  LET v == elems[f.idx + 1].v
                      g1 == [g EXCEPT !.stack[n] = [f EXCEPT !.idx = @ + 1]]
                  IN  IF IsDict(v)
                      THEN _normalize_row(g1, sch, v.items, child_table, f.table,
                                          f.record_hash, f.idx, f.ix, uid)
                      ELSE IF IsList(v)
                      THEN [g EXCEPT !.status = "failed", !.stack = <<>>]
                      ELSE
                        LET child_row_hash ==
                                PyStr(_get_child_row_hash(f.record_hash, child_table, f.idx))
                            e == _append_child_meta(
                                    <<Entry("value", v), Entry("_record_hash", child_row_hash)>>,
                                    g.extend, f.record_hash, f.idx)
                        IN  Yield(g1, child_table, f.table, e,
                                  [src |-> v, parent_hash |-> f.record_hash, pos |-> f.idx,
                                   parent_ix |-> f.ix, kind |-> "scalar"])
                ELSE
                  LET row1 == RemoveChildList(sch, f.table, flattened_row, k)
                  IN  ExpandLists([g EXCEPT !.stack[n] = [f EXCEPT !.li = @ + 1, !.idx = 0],
                                            !.out[f0.ix].row = row1], sch, uid)

\* schema.normalize_table_name(get_table_name(event) or schema.schema_name)
RootTableName(sch, event) ==
    LET named == get_table_name(event)
    IN  normalize_table_name(IF Truthy(named) THEN named.s ELSE sch.name)

\* normalize that drops the metadata field only when it names a table
normalize_KeepMeta(g, sch, lid, uid) ==
    LET event == DictSet(g.source_event, "_load_id", PyStr(lid))
        table_name == RootTableName(sch, event)
        event1 == IF Truthy(get_table_name(event)) THEN DictDel(event, DLT_METADATA_FIELD)
                  ELSE event
        g1 == [g EXCEPT !.source_event = event1,
                        !.extend = <<Entry("_root_hash", PyNone)>>]
    IN  _normalize_row(g1, sch, event1, table_name, NoTable, PyNone, -1, 0, uid)

\* normalize over a _flatten that hoists the nested fields into the source
\* document itself
normalize_InPlace(g, sch, lid, uid) ==
    LET event == DictSet(g.source_event, "_load_id", PyStr(lid))
        table_name == RootTableName(sch, event)
        event1 == DictDel(event, DLT_METADATA_FIELD)
        g1 == [g EXCEPT !.source_event = _flatten(sch, table_name, event1),
                        !.extend = <<Entry("_root_hash", PyNone)>>]
    IN  _normalize_row(g1, sch, event1, table_name, NoTable, PyNone, -1, 0, uid)

\* normalize from its entry to the first yield (lines 170-181)
normalize(g, sch, lid, uid) ==
    LET event == DictSet(g.source_event, "_load_id", PyStr(lid))
        table_name == RootTableName(sch, event)
        event1 == DictDel(event, DLT_METADATA_FIELD)
        g1 == [g EXCEPT !.source_event = event1,
                        !.extend = <<Entry("_root_hash", PyNone)>>]
    IN  _normalize_row(g1, sch, event1, table_name, NoTable, PyNone, -1, 0, uid)

\* ------------------------------------------------------------ inputs
Column(name, data_type, primary_key) ==
    [name |-> name, data_type |-> data_type, primary_key |-> primary_key]

\* schema._hints: the list of column-name patterns of each hint category; a
\* category that is not in the dict reads as the empty list
HintCategories == {"not_null", "foreign_key", "unique"}

NoHints == [h \in HintCategories |-> <<>>]

\* p in patterns
Contains(patterns, p) == \E i \in 1..Len(patterns) : patterns[i] = p

\* schema.merge_hints(new_hints): the union of the lists, category by category
RECURSIVE AppendMissing(_, _)
AppendMissing(patterns, new) ==
    IF new = <<>> THEN patterns
    ELSE AppendMissing(IF Contains(patterns, Head(new)) THEN patterns
                       ELSE Append(patterns, Head(new)), Tail(new))

merge_hints(hints, new_hints) ==
    [h \in HintCategories |-> AppendMissing(hints[h], new_hints[h])]

\* the hints of the normalizer (lines 162-166)
RelationalHints ==
    [not_null |-> <<"^_record_hash$", "^_root_hash$", "^_parent_hash$", "^_pos$", "_load_id">>,
     foreign_key |-> <<"^_parent_hash$">>,
     unique |-> <<"^_record_hash$">>]

\* extend_schema that merges without the guard, extending the lists in place
extend_schema_Extend(sch) ==
    [sch EXCEPT !.hints = [h \in HintCategories |-> sch.hints[h] \o RelationalHints[h]]]

extend_schema(sch) ==
    IF Contains(sch.hints["not_null"], "^_record_hash$")
    THEN sch
    ELSE [sch EXCEPT !.hints = merge_hints(sch.hints, RelationalHints)]

\* no table is known to the schema; "blob" is inferred complex by name
SchemaPlain ==
    [name |-> "event", tables |-> <<>>, preferred |-> {"blob"}, hints |-> NoHints]

\* id is the primary key of the root and of the items tables, payload is
\* declared complex in both; users has a two-column primary key declared in
\* the order k2, id and a declared complex list column
SchemaKeyed ==
    [name |-> "event",
     tables |-> ("event" :> <<Column("id", "bigint", TRUE), Column("payload", "complex", FALSE)>>)
             @@ ("users" :> <<Column("k2", "bigint", TRUE), Column("id", "bigint", TRUE),
                              Column("tags", "complex", FALSE)>>)
             @@ ("event__items" :> <<Column("id", "bigint", TRUE),
                                     Column("payload", "complex", FALSE)>>),
     preferred |-> {"blob"}, hints |-> NoHints]

Schemas == {SchemaPlain, SchemaKeyed}

LoadIds == {"L1", "L2"}

\* ["s1", ..., "sn"] and [{"v": 1}, ..., {"v": n}]
RECURSIVE ScalarList(_)
ScalarList(n) ==
    IF n = 0 THEN <<>> ELSE Append(ScalarList(n - 1), PyStr("s" \o ToString(n)))

RECURSIVE DictList(_)
DictList(n) ==
    IF n = 0 THEN <<>> ELSE Append(DictList(n - 1), PyDict(<<Entry("v", PyInt(n))>>))

GeneratedDocs ==
    {<<Entry("tags", PyList(ScalarList(n)))>> : n \in 0..MaxListLen}
    \cup {<<Entry("id", PyInt(5)), Entry("items", PyList(DictList(n)))>> : n \in 1..MaxListLen}

Corpus == {
    \* nested mappings
    <<Entry("a", PyInt(1)), Entry("b", PyDict(<<Entry("Id", PyDict(<<Entry("d", PyInt(2))>>))>>))>>,
    \* primary key, also composite
    <<Entry("Id", PyInt(42)), Entry("name", PyStr("a"))>>,
    \* list of mappings: with a primary key, without, with lists of their own
    <<Entry("id", PyInt(1)),
      Entry("items", PyList(<<PyDict(<<Entry("id", PyInt(7)), Entry("v", PyStr("p"))>>),
                              PyDict(<<Entry("v", PyStr("q"))>>)>>))>>,
    <<Entry("items", PyList(<<PyDict(<<Entry("sub", PyList(<<PyStr("y"), PyInt(0)>>))>>),
                              PyDict(<<Entry("v", PyInt(1))>>)>>)),
      Entry("tags", PyList(<<PyStr("t")>>))>>,
    \* forwarded record ids: set (next to a primary key), empty, null
    <<Entry("items", PyList(<<PyDict(<<Entry("_record_hash", PyStr("fwd")), Entry("id", PyInt(9))>>),
                              PyDict(<<Entry("_record_hash", PyStr("")), Entry("v", PyInt(2))>>)>>))>>,
    <<Entry("_record_hash", PyStr("rootfwd")), Entry("tags", PyList(<<PyStr("x")>>))>>,
    <<Entry("_record_hash", PyNone), Entry("id", PyInt(1)), Entry("tags", PyList(<<PyStr("n")>>))>>,
    <<Entry("_record_hash", PyStr("")), Entry("a", PyInt(1))>>,
    \* lists nested in lists
    <<Entry("a", PyList(<<PyInt(1), PyList(<<PyInt(2)>>)>>))>>,
    <<Entry("items", PyList(<<PyDict(<<Entry("v", PyInt(1))>>), PyList(<<>>)>>))>>,
    <<Entry("a", PyList(<<PyList(<<PyInt(1)>>)>>))>>,
    \* complex values
    <<Entry("payload", PyDict(<<Entry("x", PyInt(1)), Entry("y", PyList(<<PyInt(1)>>))>>))>>,
    <<Entry("blob", PyList(<<PyInt(1), PyInt(2)>>))>>,
    <<Entry("items", PyList(<<PyDict(<<Entry("payload",
                PyDict(<<Entry("x", PyList(<<PyList(<<>>)>>))>>))>>)>>))>>,
    \* routing metadata
    <<Entry("_dlt_meta", PyDict(<<Entry("table_name", PyStr("Users"))>>)), Entry("id", PyInt(1)),
      Entry("k2", PyInt(2)), Entry("Tags", PyList(<<PyStr("x")>>))>>,
    <<Entry("_dlt_meta", PyDict(<<Entry("source", PyStr("s"))>>)), Entry("a", PyInt(1)),
      Entry("tags", PyList(<<PyStr("m")>>))>>
}

Docs == Corpus \cup GeneratedDocs

Calls == {"A", "B"}

\* --------------------------------------------------- the BigQuery sql client
\* sessions the server can create
MaxSessions == 3

\* with-blocks of begin_transaction() the program is inside of at one time
MaxDepth == 2

CommitSql == "COMMIT TRANSACTION;CALL BQ.ABORT_SESSION();"

RollbackSql == "ROLLBACK TRANSACTION;CALL BQ.ABORT_SESSION();"

BeginSql == "BEGIN TRANSACTION;"

Exception(type, msg) == [type |-> type, msg |-> msg]

NoException == Exception("", "")

NestedTransactions == Exception("ProgrammingError", "Nested transactions not supported on BigQuery")

NotStarted == Exception("ProgrammingError", "Transaction was not started")

\* self._client is None
NoClient == Exception("AttributeError", "'NoneType' object has no attribute 'query'")

\* the server rejects the BEGIN TRANSACTION job
JobFailed == Exception("GoogleAPICallError", "job failed")

\* an exception raised by the body of a with-block
BodyFailed == Exception("ValueError", "body")

\* what a failed statement of execute_sql comes out as
SqlErrors ==
    {Exception(t, "statement failed") :
        t \in {"DatabaseTerminalException", "DatabaseTransientException",
               "DatabaseUndefinedRelation"}}

is_dbapi_exception(ex) == ex.type \in {"ProgrammingError", "DataError", "IntegrityError"}

\* the exceptions of the model carry no gRPC reason
_make_database_exception(ex) ==
    IF ~is_dbapi_exception(ex) THEN ex
    ELSE IF ex.type \in {"DataError", "IntegrityError"}
    THEN Exception("DatabaseTerminalException", ex.msg)
    ELSE Exception("DatabaseTransientException", ex.msg)

\* the decorator of begin_transaction: an exception leaves as a database exception
raise_database_error(s) ==
    IF s.raised = NoException THEN s
    ELSE [s EXCEPT !.raised = _make_database_exception(@)]

\* the client object, the server's transactions and the outcome of the call
\* in progress; _session_query is {} for None and {sid} for the job config
\* of session sid, _client is FALSE for None
Client ==
    [_session_query |-> _session_query, _client |-> _client, transactions |-> transactions,
     committed |-> committed, rolled_back |-> rolled_back, next_session |-> next_session,
     sql_failed |-> sql_failed, issued |-> <<>>, raised |-> NoException]

\* execute_sql(sql) under job_config = self._session_query or self._default_query;
\* err is the exception of a failing statement, NoException when it succeeds;
\* a statement that fails changes nothing on the server
execute_sql(s, sql, err) ==
    LET s1 == [s EXCEPT !.issued = Append(@, [sql |-> sql, session |-> s._session_query])]
        open == s.transactions \cap s._session_query
    IN  IF err # NoException THEN [s1 EXCEPT !.raised = err, !.sql_failed = TRUE]
        ELSE IF sql = CommitSql
        THEN [s1 EXCEPT !.transactions = @ \ open, !.committed = @ \cup open]
        ELSE IF sql = RollbackSql
        THEN [s1 EXCEPT !.transactions = @ \ open, !.rolled_back = @ \cup open]
        ELSE s1

\* commit_transaction that keeps the session after the commit
commit_transaction_KeepSession(s, err) ==
    IF s._session_query = {} THEN s
    ELSE execute_sql(s, CommitSql, err)

commit_transaction(s, err) ==
    IF s._session_query = {} THEN s
    ELSE LET s1 == execute_sql(s, CommitSql, err)
         IN  IF s1.raised # NoException THEN s1
             ELSE [s1 EXCEPT !._session_query = {}]

rollback_transaction(s, err) ==
    IF s._session_query = {} THEN [s EXCEPT !.raised = NotStarted]
    ELSE LET s1 == execute_sql(s, RollbackSql, err)
         IN  IF s1.raised # NoException THEN s1
             ELSE [s1 EXCEPT !._session_query = {}]

close_connection(s, err) ==
    LET s1 == IF s._session_query # {} THEN rollback_transaction(s, err) ELSE s
    IN  IF s1.raised # NoException THEN s1
        ELSE [s1 EXCEPT !._client = FALSE]

\* "except Exception: self.rollback_transaction(); raise" of begin_transaction
RollbackAndReraise(s, ex, err) ==
    LET s1 == rollback_transaction([s EXCEPT !.raised = NoException], err)
    IN  IF s1.raised # NoException THEN s1 ELSE [s1 EXCEPT !.raised = ex]

\* begin_transaction up to its yield (lines 131-158); fault tells which of
\* the two calls on the BEGIN TRANSACTION job fails, if any
begin_transaction(s, fault, err) ==
    IF s._session_query # {} THEN RollbackAndReraise(s, NestedTransactions, err)
    ELSE IF ~s._client THEN RollbackAndReraise(s, NoClient, err)
    ELSE
      LET q == [s EXCEPT !.issued = Append(@, [sql |-> BeginSql, session |-> {}])]
      IN  IF fault = "query"
          THEN RollbackAndReraise([q EXCEPT !.sql_failed = TRUE], JobFailed, err)
          ELSE
            LET s1 == [q EXCEPT !._session_query = {s.next_session},
                                !.next_session = @ + 1]
            IN  IF fault = "result"
                THEN RollbackAndReraise([s1 EXCEPT !._session_query = {},
                                                   !.sql_failed = TRUE], JobFailed, err)
                ELSE [s1 EXCEPT !.transactions = @ \cup {s.next_session}]

\* begin_transaction resumed after its yield by a body that ended normally
\* (lines 159-162)
EndBlock(s, errc, errr) ==
    LET s1 == commit_transaction(s, errc)
    IN  IF s1.raised # NoException THEN RollbackAndReraise(s1, s1.raised, errr) ELSE s1

\* begin_transaction resumed by an exception of the body thrown in at its
\* yield (lines 160-162)
EndBlockRaising(s, ex, err) == RollbackAndReraise(s, ex, err)

\* BigQuerySqlClient.__init__
ClientConstructed ==
    /\ _session_query = {}
    /\ _client = FALSE
    /\ transactions = {}
    /\ committed = {}
    /\ rolled_back = {}
    /\ next_session = 1
    /\ sql_failed = FALSE
    /\ issued = <<>>
    /\ raised = NoException
    /\ depth = 0
    /\ last = "__init__"

\* ------------------------------------------------------------ the state machine
\* Gen with one propagation dict shared by the calls
Gen_SharedExtend(c) ==
    LET others == {d \in Calls \ {c} : extend[d] # <<>>}
    IN  [source_event |-> source_event[c], status |-> status[c],
         extend |-> IF others # {} THEN extend[CHOOSE d \in others : TRUE] ELSE extend[c],
         stack |-> stack[c], out |-> out[c], seen |-> seen[c]]

\* the generator object of call c
Gen(c) ==
    [source_event |-> source_event[c], status |-> status[c], extend |-> extend[c],
     stack |-> stack[c], out |-> out[c], seen |-> seen[c]]

SetGen(c, g) ==
    /\ source_event' = [source_event EXCEPT ![c] = g.source_event]
    /\ status' = [status EXCEPT ![c] = g.status]
    /\ extend' = [extend EXCEPT ![c] = g.extend]
    /\ stack' = [stack EXCEPT ![c] = g.stack]
    /\ out' = [out EXCEPT ![c] = g.out]
    /\ seen' = [seen EXCEPT ![c] = g.seen]

Init ==
    /\ schema \in Schemas
    /\ document \in [Calls -> Docs]
    /\ load_id \in [Calls -> LoadIds]
    /\ source_event = document
    /\ status = [c \in Calls |-> "created"]
    /\ extend = [c \in Calls |-> <<>>]
    /\ stack = [c \in Calls |-> <<>>]
    /\ out = [c \in Calls |-> <<>>]
    /\ seen = [c \in Calls |-> <<>>]
    /\ extended = 0
    /\ ClientConstructed

\* the first next() on the generator returned by normalize(schema, event, load_id)
NormalizeStart(c) ==
    /\ status[c] = "created"
    /\ \E uid \in UniqIds : SetGen(c, normalize(Gen(c), schema, load_id[c], uid))
    /\ UNCHANGED <<schema, document, load_id, extended, txvars>>

\* a later next() on the generator
NormalizeNext(c) ==
    /\ status[c] = "suspended"
    /\ \E uid \in UniqIds : SetGen(c, ExpandLists(Gen(c), schema, uid))
    /\ UNCHANGED <<schema, document, load_id, extended, txvars>>

Next == \E c \in Calls : NormalizeStart(c) \/ NormalizeNext(c)

Spec == Init /\ [][Next]_vars

\* one call consumed to its end by a consumer that keeps asking for the next
\* row; the other call is never started
InitSolo ==
    /\ Init
    /\ document["B"] = document["A"]
    /\ load_id["B"] = load_id["A"]

NextSolo == NormalizeStart("A") \/ NormalizeNext("A")

\* next() can be called on the generator: ENABLED <<NextSolo>>_vars
CanPull == status["A"] \in {"created", "suspended"}

\* weak fairness of the consumer's next() calls, WF_vars(NextSolo), with its
\* enabling condition written as the state predicate CanPull
ConsumerKeepsPulling == []<>(~CanPull) \/ []<><<NextSolo>>_vars

FairSolo == InitSolo /\ [][NextSolo]_vars /\ ConsumerKeepsPulling

\* the schema set-up step, before any document is normalized: the hints a
\* schema may already have, and extend_schema called on it again and again
HintLists ==
    {<<>>, <<"^id$">>, <<"^_record_hash$">>, <<"^id$", "^_record_hash$">>,
     <<"_load_id", "^_parent_hash$">>}

InitHints ==
    /\ schema \in {[SchemaKeyed EXCEPT !.hints = h] : h \in [HintCategories -> HintLists]}
    /\ document = [c \in Calls |-> <<Entry("a", PyInt(1))>>]
    /\ load_id = [c \in Calls |-> "L1"]
    /\ source_event = document
    /\ status = [c \in Calls |-> "created"]
    /\ extend = [c \in Calls |-> <<>>]
    /\ stack = [c \in Calls |-> <<>>]
    /\ out = [c \in Calls |-> <<>>]
    /\ seen = [c \in Calls |-> <<>>]
    /\ extended = 0
    /\ ClientConstructed

ExtendSchema ==
    /\ extended < MaxExtendCalls
    /\ schema' = extend_schema(schema)
    /\ extended' = extended + 1
    /\ UNCHANGED <<document, load_id, source_event, status, extend, stack, out, seen, txvars>>

NextHints == ExtendSchema

SpecHints == InitHints /\ [][NextHints]_vars

\* ------------------------------------------- the program using the sql client
SetClient(s, d) ==
    /\ _session_query' = s._session_query
    /\ _client' = s._client
    /\ transactions' = s.transactions
    /\ committed' = s.committed
    /\ rolled_back' = s.rolled_back
    /\ next_session' = s.next_session
    /\ sql_failed' = s.sql_failed
    /\ issued' = s.issued
    /\ raised' = s.raised
    /\ depth' = d
    /\ UNCHANGED <<schema, document, load_id, source_event, status, extend, stack, out, seen,
                   extended>>

StatementOutcomes == {NoException} \cup SqlErrors

InitTx ==
    /\ schema = SchemaPlain
    /\ document = [c \in Calls |-> <<Entry("a", PyInt(1))>>]
    /\ load_id = [c \in Calls |-> "L1"]
    /\ source_event = document
    /\ status = [c \in Calls |-> "created"]
    /\ extend = [c \in Calls |-> <<>>]
    /\ stack = [c \in Calls |-> <<>>]
    /\ out = [c \in Calls |-> <<>>]
    /\ seen = [c \in Calls |-> <<>>]
    /\ extended = 0
    /\ ClientConstructed

OpenConnection ==
    /\ ~_client
    /\ last' = "open_connection"
    /\ SetClient([Client EXCEPT !._client = TRUE], depth)

\* "with client.begin_transaction():" is entered, or raises
BeginTransaction ==
    /\ depth < MaxDepth
    /\ next_session <= MaxSessions
    /\ \E fault \in {"none", "query", "result"} : \E err \in StatementOutcomes :
          LET s == raise_database_error(begin_transaction(Client, fault, err))
          IN  SetClient(s, IF s.raised = NoException THEN depth + 1 ELSE depth)
    /\ last' = "begin_transaction"

\* the body of the innermost with-block ends
ExitBlock ==
    /\ depth > 0
    /\ \E errc \in StatementOutcomes : \E errr \in StatementOutcomes :
          SetClient(raise_database_error(EndBlock(Client, errc, errr)), depth - 1)
    /\ last' = "exit"

\* the body of the innermost with-block raises
ExitBlockRaising ==
    /\ depth > 0
    /\ \E err \in StatementOutcomes :
          SetClient(raise_database_error(EndBlockRaising(Client, BodyFailed, err)), depth - 1)
    /\ last' = "exit_raising"

CommitTransaction ==
    /\ last' = "commit_transaction"
    /\ \E err \in StatementOutcomes : SetClient(commit_transaction(Client, err), depth)

RollbackTransaction ==
    /\ last' = "rollback_transaction"
    /\ \E err \in StatementOutcomes : SetClient(rollback_transaction(Client, err), depth)

CloseConnection ==
    /\ last' = "close_connection"
    /\ \E err \in StatementOutcomes : SetClient(close_connection(Client, err), depth)

NextTx ==
    \/ OpenConnection
    \/ BeginTransaction
    \/ ExitBlock
    \/ ExitBlockRaising
    \/ CommitTransaction
    \/ RollbackTransaction
    \/ CloseConnection

SpecTx == InitTx /\ [][NextTx]_vars

\* ------------------------------------------------------------ properties
Finished(c) == status[c] \in {"done", "failed"}

Emitted(c) == 1..Len(out[c])

Min(a, b) == IF a < b THEN a ELSE b

RecordHashOf(row) == DictGet(row, "_record_hash")

\* the flattened row of the invocation that yielded out[c][i], before its
\* identity was resolved
FlatOf(c, i) == _flatten(schema, out[c][i].table, out[c][i].call.src.items)

\* the places in out[c], in order, of the rows of table tbl yielded for the
\* list elements of the row at place i
RECURSIVE ChildIxs(_, _, _, _)
ChildIxs(c, i, tbl, from) ==
    IF from > Len(out[c]) THEN <<>>
    ELSE (IF out[c][from].call.parent_ix = i /\ out[c][from].table = tbl
          THEN <<from>> ELSE <<>>)
         \o ChildIxs(c, i, tbl, from + 1)

\* C1: every row emitted by one normalize call, the root row included,
\* carries a _root_hash equal to the _record_hash of the root row of the call
C1_RootHashOnEveryRow ==
    \A c \in Calls : \A i \in Emitted(c) :
        /\ DictHas(out[c][i].row, "_root_hash")
        /\ DictGet(out[c][i].row, "_root_hash") = RecordHashOf(out[c][1].row)

\* C2: every emitted row with a parent table carries a parent id, and a row
\* of that parent table with that _record_hash was emitted earlier
C2_ParentEmittedEarlier ==
    \A c \in Calls : \A i \in Emitted(c) :
        out[c][i].parent_table # NoTable =>
            /\ DictHas(out[c][i].row, "_parent_hash")
            /\ \E j \in 1..(i - 1) :
                  /\ out[c][j].table = out[c][i].parent_table
                  /\ RecordHashOf(out[c][j].row) = DictGet(out[c][i].row, "_parent_hash")

\* C3: once the stream is consumed, a list field k of length N of a flattened
\* row of table T has exactly N rows of table T__k with parent T, in list
\* order, the row of element i carrying _pos = i
C3_ChildRowsInOrder ==
    \A c \in Calls : status[c] = "done" =>
        \A i \in Emitted(c) : out[c][i].call.kind = "dict" =>
            \A e \in 1..Len(seen[c][i]) : IsList(seen[c][i][e].v) =>
                LET elems == seen[c][i][e].v.items
                    tbl == out[c][i].table \o PATH_SEPARATOR \o seen[c][i][e].k
                    js == ChildIxs(c, i, tbl, 1)
                IN  /\ Len(js) = Len(elems)
                    /\ \A m \in 1..Len(js) :
                          /\ out[c][js[m]].parent_table = out[c][i].table
                          /\ out[c][js[m]].call.src = elems[m].v
                          /\ DictHas(out[c][js[m]].row, "_pos")
                          /\ DictGet(out[c][js[m]].row, "_pos") = PyInt(m - 1)

\* C4: a row emitted with a parent table carries _parent_hash and _pos, the
\* root row carries neither
C4_ChildMetaOnChildRows ==
    \A c \in Calls : \A i \in Emitted(c) :
        IF out[c][i].parent_table # NoTable
        THEN DictHas(seen[c][i], "_parent_hash") /\ DictHas(seen[c][i], "_pos")
        ELSE ~DictHas(seen[c][i], "_parent_hash") /\ ~DictHas(seen[c][i], "_pos")

\* the root row of the document has a non-empty forwarded record id or
\* primary-key fields
RootKeyed(sch, doc, lid) ==
    LET event == DictSet(doc, "_load_id", PyStr(lid))
        table == RootTableName(sch, event)
        flat == _flatten(sch, table, DictDel(event, DLT_METADATA_FIELD))
    IN  Truthy(RecordHashOf(flat)) \/ filter_row_with_hint(sch, table, flat) # <<>>

SameInputs ==
    /\ document["A"] = document["B"]
    /\ load_id["A"] = load_id["B"]

\* C5: two calls with the same document, schema and load id whose root row is
\* keyed yield the same rows in the same order: every row yielded by both is
\* the same at the time it is yielded, and the consumed streams are equal
C5_KeyedDeterminism ==
    (SameInputs /\ RootKeyed(schema, document["A"], load_id["A"])) =>
        /\ \A i \in 1..Min(Len(out["A"]), Len(out["B"])) :
              /\ seen["A"][i] = seen["B"][i]
              /\ out["A"][i].table = out["B"][i].table
              /\ out["A"][i].parent_table = out["B"][i].parent_table
        /\ (Finished("A") /\ Finished("B")) =>
              (out["A"] = out["B"] /\ status["A"] = status["B"])

C5_Witness ==
    /\ SameInputs /\ RootKeyed(schema, document["A"], load_id["A"])
    /\ status["A"] = "done" /\ status["B"] = "done"
    /\ Len(out["A"]) >= 3
    /\ \E i \in Emitted("A") : DictHas(out["A"][i].row, "_parent_hash")

\* C6: a row with primary-key fields and no forwarded record id has the
\* digest of the "_"-joined strings of the primary-key values, in the
\* schema's key order, as its record id, whatever the load id, the other
\* fields, the parent id and the position are
C6_PrimaryKeyHash ==
    /\ \A c \in Calls : \A i \in Emitted(c) : out[c][i].call.kind = "dict" =>
          LET pk == filter_row_with_hint(schema, out[c][i].table, FlatOf(c, i))
          IN  (pk # <<>> /\ ~Truthy(RecordHashOf(FlatOf(c, i)))) =>
                  RecordHashOf(seen[c][i]) = PyStr(digest128(JoinValues(pk)))
    /\ \A c \in Calls, d \in Calls : \A i \in Emitted(c), j \in Emitted(d) :
          LET pk == filter_row_with_hint(schema, out[c][i].table, FlatOf(c, i))
              qk == filter_row_with_hint(schema, out[d][j].table, FlatOf(d, j))
          IN  (/\ out[c][i].call.kind = "dict" /\ out[d][j].call.kind = "dict"
               /\ out[c][i].table = out[d][j].table
               /\ pk # <<>> /\ pk = qk
               /\ ~Truthy(RecordHashOf(FlatOf(c, i)))
               /\ ~Truthy(RecordHashOf(FlatOf(d, j)))) =>
                  RecordHashOf(seen[c][i]) = RecordHashOf(seen[d][j])

\* the composite key (k2, id) of a root row hashed in the schema's order, and
\* a child row with a primary key under another load id
C6_Witness ==
    /\ schema = SchemaKeyed
    /\ load_id["A"] # load_id["B"]
    /\ \E i \in Emitted("A") :
          /\ out["A"][i].parent_table # NoTable
          /\ RecordHashOf(seen["A"][i]) = PyStr("#7")
    /\ \E j \in Emitted("B") :
          /\ out["B"][j].table = "users"
          /\ RecordHashOf(seen["B"][j]) = PyStr("#2_1")

\* C7: the record id of a row produced from a mapping is the forwarded
\* non-empty _record_hash, else the primary-key hash, else for a child the
\* hash of (parent record id, table, position), else for the root a random
\* id; the id the row was yielded with is the one it keeps
C7_StrategyOrder ==
    \A c \in Calls : \A i \in Emitted(c) : out[c][i].call.kind = "dict" =>
        LET forwarded == RecordHashOf(FlatOf(c, i))
            pk == filter_row_with_hint(schema, out[c][i].table, FlatOf(c, i))
            rh == RecordHashOf(seen[c][i])
        IN  /\ RecordHashOf(out[c][i].row) = rh
            /\ IF Truthy(forwarded) THEN rh = forwarded
               ELSE IF pk # <<>> THEN rh = PyStr(digest128(JoinValues(pk)))
               ELSE IF out[c][i].parent_table # NoTable
               THEN rh = PyStr(_get_child_row_hash(
                                 RecordHashOf(out[c][out[c][i].call.parent_ix].row),
                                 out[c][i].table, out[c][i].call.pos))
               ELSE rh \in {PyStr(_get_content_hash(u)) : u \in UniqIds}

\* one call has yielded a child with a forwarded id and a primary key, a
\* child hashed from its position and a random root, the other a root with a
\* primary key and a blank forwarded id
C7_Witness ==
    /\ \E i \in Emitted("A"), j \in Emitted("A") :
          /\ out["A"][i].parent_table # NoTable /\ out["A"][j].parent_table # NoTable
          /\ out["A"][i].call.kind = "dict" /\ out["A"][j].call.kind = "dict"
          /\ Truthy(RecordHashOf(FlatOf("A", i)))
          /\ filter_row_with_hint(schema, out["A"][i].table, FlatOf("A", i)) # <<>>
          /\ DictHas(FlatOf("A", j), "_record_hash") /\ ~Truthy(RecordHashOf(FlatOf("A", j)))
          /\ RecordHashOf(out["A"][1].row) \in {PyStr(_get_content_hash(u)) : u \in UniqIds}
    /\ \E j \in Emitted("B") :
          /\ out["B"][j].parent_table = NoTable
          /\ filter_row_with_hint(schema, out["B"][j].table, FlatOf("B", j)) # <<>>
          /\ DictHas(FlatOf("B", j), "_record_hash")

\* C8: every row carries a _record_hash when it is yielded, and the value is
\* neither empty nor null
C8_RecordHashNeverBlank ==
    \A c \in Calls : \A i \in Emitted(c) :
        /\ DictHas(seen[c][i], "_record_hash")
        /\ Truthy(RecordHashOf(seen[c][i]))
        /\ RecordHashOf(seen[c][i]) # PyNone
        /\ RecordHashOf(seen[c][i]) # PyStr("")

\* rows have been yielded for a mapping that forwards an empty id, for one
\* that forwards a null id, and for a scalar list element
C8_Witness ==
    /\ \E i \in Emitted("A") :
          /\ out["A"][i].call.kind = "dict"
          /\ DictHas(out["A"][i].call.src.items, "_record_hash")
          /\ DictGet(out["A"][i].call.src.items, "_record_hash") = PyStr("")
    /\ \E i \in Emitted("B") :
          /\ out["B"][i].call.kind = "dict"
          /\ DictHas(out["B"][i].call.src.items, "_record_hash")
          /\ DictGet(out["B"][i].call.src.items, "_record_hash") = PyNone
    /\ \E c \in Calls : \E i \in Emitted(c) : out[c][i].call.kind = "scalar"

\* C9: when a list field contains an element that is a list and the call has
\* failed, no row of the child table of that field has been yielded
C9_NoRowOfFailedList ==
    \A c \in Calls : status[c] = "failed" =>
        \A i \in Emitted(c) : out[c][i].call.kind = "dict" =>
            \A e \in 1..Len(seen[c][i]) :
                (/\ IsList(seen[c][i][e].v)
                 /\ \E m \in 1..Len(seen[c][i][e].v.items) : IsList(seen[c][i][e].v.items[m].v)) =>
                    ChildIxs(c, i, out[c][i].table \o PATH_SEPARATOR \o seen[c][i][e].k, 1) = <<>>

\* every mapping or list of the mapping `items` that lies at a path which is
\* complex for the table, reached through mappings that are not complex, is in
\* the row under that path, unchanged
RECURSIVE ComplexKept(_, _, _, _)
ComplexKept(table, items, parent_name, row) ==
    \A e \in 1..Len(items) :
        LET path == IF parent_name = "" THEN normalize_column_name(items[e].k)
                    ELSE parent_name \o PATH_SEPARATOR \o normalize_column_name(items[e].k)
            v == items[e].v
        IN  IF (IsDict(v) \/ IsList(v)) /\ _is_complex_type(schema, table, path)
            THEN DictHas(row, path) /\ DictGet(row, path) = v
            ELSE IsDict(v) => ComplexKept(table, v.items, path, row)

\* C10: once the stream is consumed, a mapping or list field that is complex
\* for the row's table and path is in the emitted row under that path with
\* its original value
C10_ComplexPassthrough ==
    \A c \in Calls : status[c] = "done" =>
        \A i \in Emitted(c) : out[c][i].call.kind = "dict" =>
            ComplexKept(out[c][i].table, out[c][i].call.src.items, "", out[c][i].row)

\* a consumed stream whose root row keeps a complex mapping, another whose
\* root row keeps a complex list next to the child rows made from it
C10_Witness ==
    /\ status["A"] = "done" /\ status["B"] = "done"
    /\ IsDict(DictGet(out["A"][1].row, "payload"))
    /\ DictGet(out["A"][1].row, "payload") = DictGet(document["A"], "payload")
    /\ IsList(DictGet(out["B"][1].row, "blob"))
    /\ DictGet(out["B"][1].row, "blob") = DictGet(document["B"], "blob")
    /\ Len(out["B"]) = 3

\* a mapping or list at a path of the mapping `items` of row i of call c is
\* kept as one opaque value (it is in the consumed row under its path,
\* unchanged, and no row of a child table was made from it) exactly if the
\* path is complex for the table
RECURSIVE OpaqueIffComplex(_, _, _, _)
OpaqueIffComplex(c, i, items, parent_name) ==
    \A e \in 1..Len(items) :
        LET path == IF parent_name = "" THEN normalize_column_name(items[e].k)
                    ELSE parent_name \o PATH_SEPARATOR \o normalize_column_name(items[e].k)
            v == items[e].v
            complex == _is_complex_type(schema, out[c][i].table, path)
            kept == /\ DictHas(out[c][i].row, path)
                    /\ DictGet(out[c][i].row, path) = v
                    /\ ChildIxs(c, i, out[c][i].table \o PATH_SEPARATOR \o path, 1) = <<>>
        IN  (IsDict(v) \/ IsList(v)) =>
                /\ kept <=> complex
                /\ (IsDict(v) /\ ~complex) => OpaqueIffComplex(c, i, v.items, path)

\* C11: a field is kept as one opaque value, nothing of it hoisted and no
\* child-table row made from it, if and only if its type is complex for the
\* table and path; a complex list field produces no child-table rows
C11_OpaqueIffComplex ==
    \A c \in Calls : status[c] = "done" =>
        \A i \in Emitted(c) : out[c][i].call.kind = "dict" =>
            OpaqueIffComplex(c, i, out[c][i].call.src.items, "")

\* C12: once the stream is consumed, the only list-valued fields left in an
\* emitted row are those whose type is complex for the row's table
C12_NoListLeft ==
    \A c \in Calls : status[c] = "done" =>
        \A i \in Emitted(c) : \A e \in 1..Len(out[c][i].row) :
            IsList(out[c][i].row[e].v) =>
                _is_complex_type(schema, out[c][i].table, out[c][i].row[e].k)

\* a consumed stream whose root row was yielded with an empty list and a
\* consumed stream with a child row that was yielded with a list of its own
C12_Witness ==
    /\ status["A"] = "done" /\ status["B"] = "done"
    /\ IsList(DictGet(seen["A"][1], "tags")) /\ DictGet(seen["A"][1], "tags").items = <<>>
    /\ ~DictHas(out["A"][1].row, "tags")
    /\ \E i \in Emitted("B") :
          /\ out["B"][i].parent_table # NoTable
          /\ IsList(DictGet(seen["B"][i], "sub"))
          /\ ~DictHas(out["B"][i].row, "sub")

IdentityFields == {"_record_hash", "_root_hash", "_parent_hash", "_pos"}

\* the leaves of the mapping `items`: the values that are not mappings, or
\* are mappings at a path that is complex for the table, each with the path
\* of normalized keys that leads to it
RECURSIVE Leaves(_, _, _)
Leaves(table, items, parent_name) ==
    UNION { LET path == IF parent_name = "" THEN normalize_column_name(items[e].k)
                        ELSE parent_name \o PATH_SEPARATOR \o normalize_column_name(items[e].k)
                v == items[e].v
            IN  IF IsDict(v) /\ ~_is_complex_type(schema, table, path)
                THEN Leaves(table, v.items, path)
                ELSE {[path |-> path, v |-> v]}
          : e \in 1..Len(items) }

\* C13: the flattened row is single-level: every leaf of the input reached
\* through mappings that are not complex is in the row under the path of its
\* normalized keys joined by "__", a list is stored whole, a mapping is a
\* value of the row only at a complex path, and the row has no other field
\* than the leaves and the identity fields
C13_FlattenSingleLevel ==
    \A c \in Calls : \A i \in Emitted(c) : out[c][i].call.kind = "dict" =>
        LET leaves == Leaves(out[c][i].table, out[c][i].call.src.items, "")
            row == seen[c][i]
        IN  /\ \A l \in leaves :
                  (l.path = "_record_hash" /\ ~Truthy(l.v)) \/
                  (DictHas(row, l.path) /\ DictGet(row, l.path) = l.v)
            /\ \A e \in 1..Len(row) :
                  /\ IsDict(row[e].v) => _is_complex_type(schema, out[c][i].table, row[e].k)
                  /\ row[e].k \in IdentityFields \cup {l.path : l \in leaves}

\* a leaf three mappings deep under a key that is normalized, and a complex
\* mapping stored with the list inside it
C13_Witness ==
    /\ schema = SchemaKeyed
    /\ \E c \in Calls : \E i \in Emitted(c) : DictGet(seen[c][i], "b__id__d") = PyInt(2)
    /\ \E c \in Calls : \E i \in Emitted(c) :
          /\ IsDict(DictGet(seen[c][i], "payload"))
          /\ IsList(DictGet(DictGet(seen[c][i], "payload").items, "y"))

\* row m of call c was made from a list element of row j or of a row made
\* from row j
RECURSIVE DerivedFrom(_, _, _)
DerivedFrom(c, m, j) ==
    /\ out[c][m].call.parent_ix # 0
    /\ \/ out[c][m].call.parent_ix = j
       \/ DerivedFrom(c, out[c][m].call.parent_ix, j)

\* the place, in the row p of call c as it was yielded, of the list field
\* that the rows of table tbl are made from
FieldPlace(c, p, tbl) ==
    CHOOSE e \in 1..Len(seen[c][p]) :
        out[c][p].table \o PATH_SEPARATOR \o seen[c][p][e].k = tbl

\* C14: the stream is the depth-first, left-to-right pre-order: a row comes
\* after its parent row, the rows derived from a row follow it without a gap,
\* and the rows made from the elements of one row come field by field in the
\* order of the fields and element by element in list order
C14_DepthFirstOrder ==
    \A c \in Calls : \A m \in Emitted(c) :
        /\ out[c][m].call.parent_ix < m
        /\ \A j \in 1..(m - 1) :
              DerivedFrom(c, m, j) => \A n \in (j + 1)..m : DerivedFrom(c, n, j)
        /\ \A n \in 1..(m - 1) :
              (out[c][n].call.parent_ix = out[c][m].call.parent_ix /\ out[c][m].call.parent_ix # 0) =>
                  LET p == out[c][m].call.parent_ix
                      fn == FieldPlace(c, p, out[c][n].table)
                      fm == FieldPlace(c, p, out[c][m].table)
                  IN  fn < fm \/ (fn = fm /\ out[c][n].call.pos < out[c][m].call.pos)

\* a consumed stream in which the rows made from a list element lie between
\* the row of that element and the row of the next one, and the rows of a
\* second list field of the root come after all of them
C14_Witness ==
    \E c \in Calls :
        /\ status[c] = "done"
        /\ \E a \in Emitted(c), b \in Emitted(c), d \in Emitted(c), t \in Emitted(c) :
              /\ a < b /\ b < d /\ d < t
              /\ out[c][a].call.parent_ix = 1 /\ out[c][d].call.parent_ix = 1
              /\ out[c][a].table = out[c][d].table
              /\ out[c][b].call.parent_ix = a
              /\ out[c][t].call.parent_ix = 1 /\ out[c][t].table # out[c][a].table

Started(c) == status[c] # "created"

\* the entries of the routing-metadata field of the document of call c
MetaItems(c) ==
    IF IsDict(DictGet(document[c], DLT_METADATA_FIELD))
    THEN DictGet(document[c], DLT_METADATA_FIELD).items ELSE <<>>

\* C15: the routing-metadata field is removed before flattening in every
\* call: no emitted row has the field or a column made from its contents,
\* and the root table is the normalized table name it carries, else the
\* normalized schema name
C15_MetadataStripped ==
    \A c \in Calls : Started(c) =>
        /\ ~DictHas(source_event[c], DLT_METADATA_FIELD)
        /\ \A i \in Emitted(c) :
              /\ ~DictHas(seen[c][i], DLT_METADATA_FIELD)
              /\ \A e \in 1..Len(MetaItems(c)) :
                    ~DictHas(seen[c][i], DLT_METADATA_FIELD \o PATH_SEPARATOR
                                          \o normalize_column_name(MetaItems(c)[e].k))
        /\ out[c][1].parent_table = NoTable
        /\ out[c][1].table =
              IF Truthy(DictGet(MetaItems(c), "table_name"))
              THEN normalize_table_name(DictGet(MetaItems(c), "table_name").s)
              ELSE normalize_table_name(schema.name)

\* one call routed to the table users by its metadata, another whose
\* metadata carries no table name, both with their child rows yielded
C15_Witness ==
    /\ DictGet(MetaItems("A"), "table_name") = PyStr("Users")
    /\ status["A"] = "done" /\ out["A"][1].table = "users"
    /\ MetaItems("B") # <<>> /\ ~DictHas(MetaItems("B"), "table_name")
    /\ status["B"] = "done" /\ out["B"][1].table = "event" /\ Len(out["B"]) = 2

\* C16: the caller's document is changed only at the top level: the load id
\* is set and the routing-metadata field is removed, when the call starts;
\* every other field keeps its value, nested mappings and lists included,
\* also the lists removed from emitted rows and the complex values
C16_SourceDocumentFrame ==
    \A c \in Calls :
        IF Started(c)
        THEN /\ source_event[c] =
                    DictDel(DictSet(document[c], "_load_id", PyStr(load_id[c])),
                            DLT_METADATA_FIELD)
             /\ \A e \in 1..Len(document[c]) :
                    document[c][e].k \notin {"_load_id", DLT_METADATA_FIELD} =>
                        DictGet(source_event[c], document[c][e].k) = document[c][e].v
        ELSE source_event[c] = document[c]

\* a consumed stream of a document with metadata whose root row lost a list
\* field, another whose root row keeps a complex mapping and hoisted nothing
\* of it
C16_Witness ==
    /\ status["A"] = "done" /\ status["B"] = "done"
    /\ DictHas(document["A"], DLT_METADATA_FIELD)
    /\ IsList(DictGet(source_event["A"], "tags")) /\ ~DictHas(out["A"][1].row, "tags")
    /\ DictGet(source_event["A"], "_load_id") = PyStr(load_id["A"])
    /\ IsDict(DictGet(out["B"][1].row, "payload"))
    /\ DictGet(source_event["B"], "payload") = DictGet(document["B"], "payload")

\* the generator of a call that is consumed to its end with no other call
\* running
RECURSIVE RunOn(_, _, _)
RunOn(g, sch, uid) ==
    IF g.status \in {"done", "failed"} THEN g ELSE RunOn(ExpandLists(g, sch, uid), sch, uid)

RunAlone(sch, doc, lid, uid) ==
    RunOn(normalize([source_event |-> doc, status |-> "created", extend |-> <<>>,
                     stack |-> <<>>, out |-> <<>>, seen |-> <<>>], sch, lid, uid),
          sch, uid)

\* what call c has yielded so far is what it yields alone, and its rows carry
\* the root id and parent ids of its own rows
IsolatedStreams ==
    \A c \in Calls : Started(c) =>
        /\ \E uid \in UniqIds :
              LET alone == RunAlone(schema, document[c], load_id[c], uid)
                  n == Len(out[c])
              IN  /\ n <= Len(alone.out)
                  /\ seen[c] = SubSeq(alone.seen, 1, n)
                  /\ \A i \in 1..n : /\ out[c][i].table = alone.out[i].table
                                     /\ out[c][i].parent_table = alone.out[i].parent_table
                  /\ Finished(c) => (out[c] = alone.out /\ status[c] = alone.status)
        /\ \A i \in Emitted(c) :
              /\ DictHas(seen[c][i], "_root_hash") =>
                    DictGet(seen[c][i], "_root_hash") = RecordHashOf(seen[c][1])
              /\ DictHas(seen[c][i], "_parent_hash") =>
                    DictGet(seen[c][i], "_parent_hash")
                        = RecordHashOf(seen[c][out[c][i].call.parent_ix])

\* C17: two calls on one schema, consumed in any interleaving, each yield
\* the stream they yield alone, with the root and parent ids of their own
\* rows, and no step of a call changes the schema
C17_CallsIsolated ==
    /\ []IsolatedStreams
    /\ [][schema' = schema]_vars

\* both calls are under way on different documents with different root ids,
\* each has yielded child rows, and the one that started first is behind
C17_Witness ==
    /\ document["A"] # document["B"]
    /\ status["A"] = "suspended" /\ status["B"] = "done"
    /\ Len(out["A"]) >= 2 /\ Len(out["B"]) >= 3
    /\ RecordHashOf(seen["A"][1]) # RecordHashOf(seen["B"][1])
    /\ DictHas(seen["A"][2], "_root_hash") /\ DictHas(seen["B"][2], "_root_hash")

\* C18: extend_schema changes nothing on a schema whose not_null hints
\* hold the record-id pattern, every call after the first changes nothing,
\* and the first call on a schema without the pattern leaves all the hints
\* of the normalizer registered
C18_ExtendSchemaIdempotent ==
    [][/\ Contains(schema.hints["not_null"], "^_record_hash$") => schema' = schema
       /\ extended >= 1 => schema' = schema
       /\ (extended = 0 /\ ~Contains(schema.hints["not_null"], "^_record_hash$")) =>
              \A h \in HintCategories : \A i \in 1..Len(RelationalHints[h]) :
                  Contains(schema'.hints[h], RelationalHints[h][i])
      ]_vars

\* extend_schema has been called three times on a schema that had hints of
\* its own but not the record-id pattern in not_null
C18_Witness ==
    /\ extended = 3
    /\ schema.hints["not_null"] = <<"_load_id", "^_parent_hash$", "^_record_hash$",
                                    "^_root_hash$", "^_pos$">>
    /\ schema.hints["unique"] = <<"^id$", "^_record_hash$">>
    /\ schema.hints["foreign_key"] = <<"^_parent_hash$">>

\* the number of elements of the list-valued fields of a row
RECURSIVE ListElems(_)
ListElems(row) ==
    IF row = <<>> THEN 0
    ELSE (IF IsList(Head(row).v) THEN Len(Head(row).v.items) ELSE 0) + ListElems(Tail(row))

\* the number of elements of all list-valued fields of the flattened rows
\* that call c has yielded, from place i on
RECURSIVE ListElemsFrom(_, _)
ListElemsFrom(c, i) ==
    IF i > Len(out[c]) THEN 0
    ELSE (IF out[c][i].call.kind = "dict" THEN ListElems(seen[c][i]) ELSE 0)
         + ListElemsFrom(c, i + 1)

\* a list field of a flattened row that call c has yielded holds a list
NestedListReached(c) ==
    \E i \in Emitted(c) : \E e \in 1..Len(seen[c][i]) :
        /\ out[c][i].call.kind = "dict"
        /\ IsList(seen[c][i][e].v)
        /\ \E m \in 1..Len(seen[c][i][e].v.items) : IsList(seen[c][i][e].v.items[m].v)

\* C19: the traversal of a document ends; it ends with an error only when
\* a list is nested directly in a list field, and otherwise with exactly 1 +
\* (number of elements of all list fields of the flattened rows) rows
C19_TerminatesWithRowCount ==
    /\ <>Finished("A")
    /\ [](status["A"] = "failed" => NestedListReached("A"))
    /\ [](status["A"] = "done" =>
              /\ ~NestedListReached("A")
              /\ Len(out["A"]) = 1 + ListElemsFrom("A", 1))

\* a consumed stream of six rows over three levels, of a document with two
\* list fields at the root
C19_Witness ==
    /\ status["A"] = "done" /\ status["B"] = "created"
    /\ Len(out["A"]) = 6
    /\ \E i \in Emitted("A") : out["A"][i].call.parent_ix > 1
    /\ Len(ListFields(seen["A"][1])) = 2

\* an invocation made for an element of the list field of row i that the
\* rows of table tbl come from, or for a row derived from such an element,
\* is still suspended
PendingUnder(c, i, tbl) ==
    \E n \in 1..Len(stack[c]) :
        LET m == stack[c][n].ix
        IN  \E j \in Emitted(c) :
                /\ out[c][j].call.parent_ix = i /\ out[c][j].table = tbl
                /\ (m = j \/ DerivedFrom(c, m, j))

\* C20: a row is yielded with its list fields in it; afterwards it only
\* loses list fields, and a list field is gone from a yielded row only when
\* a row has been yielded for each of its elements and no invocation for a
\* row derived from it is still suspended, so until then the row holds the
\* list as it was
C20_ListsDeletedAfterChildren ==
    \A c \in Calls : \A i \in Emitted(c) : out[c][i].call.kind = "dict" =>
        /\ \A l \in Leaves(out[c][i].table, out[c][i].call.src.items, "") :
              IsList(l.v) => (DictHas(seen[c][i], l.path) /\ DictGet(seen[c][i], l.path) = l.v)
        /\ (i = Len(out[c]) /\ status[c] = "suspended") => out[c][i].row = seen[c][i]
        /\ \A e \in 1..Len(seen[c][i]) :
              LET k == seen[c][i][e].k
                  tbl == out[c][i].table \o PATH_SEPARATOR \o k
              IN  IF DictHas(out[c][i].row, k)
                  THEN DictGet(out[c][i].row, k) = seen[c][i][e].v
                  ELSE /\ IsList(seen[c][i][e].v)
                       /\ Len(ChildIxs(c, i, tbl, 1)) = Len(seen[c][i][e].v.items)
                       /\ ~PendingUnder(c, i, tbl)

\* a consumer holds the root row with its list still in it although the row
\* of the last element has been yielded; in the other, consumed, stream the
\* list is gone from the root row
C20_Witness ==
    /\ status["A"] = "suspended"
    /\ IsList(DictGet(out["A"][1].row, "tags"))
    /\ Len(DictGet(out["A"][1].row, "tags").items) = 2
    /\ Len(ChildIxs("A", 1, out["A"][1].table \o PATH_SEPARATOR \o "tags", 1)) = 2
    /\ status["B"] = "done"
    /\ IsList(DictGet(seen["B"][1], "items")) /\ ~DictHas(out["B"][1].row, "items")
    /\ Len(out["B"]) >= 4

\* the record id of the row at place i was made by the normalizer: the
\* element forwards no record id and has no primary key value
GeneratedId(c, i) ==
    \/ out[c][i].call.kind = "scalar"
    \/ /\ ~Truthy(DictGet(FlatOf(c, i), "_record_hash"))
       /\ filter_row_with_hint(schema, out[c][i].table, FlatOf(c, i)) = <<>>

\* C21: when no row of a stream forwards a record id or has a primary key,
\* the record ids of the rows of the stream are pairwise distinct, as yielded
\* and as they are later
C21_RecordIdsDistinct ==
    \A c \in Calls :
        (\A i \in Emitted(c) : GeneratedId(c, i)) =>
            \A i, j \in Emitted(c) :
                i # j => /\ Truthy(RecordHashOf(seen[c][i]))
                         /\ RecordHashOf(seen[c][i]) # RecordHashOf(seen[c][j])
                         /\ RecordHashOf(out[c][i].row) # RecordHashOf(out[c][j].row)

\* a finished stream of generated record ids only with rows of list elements
\* at positions 0 and 1 two levels down, mappings and plain values
C21_Witness ==
    /\ status["A"] = "done"
    /\ \A i \in Emitted("A") : GeneratedId("A", i)
    /\ Len(out["A"]) >= 6
    /\ \E i, j, m \in Emitted("A") :
          /\ out["A"][i].call.kind = "dict" /\ out["A"][i].call.parent_ix = 1
          /\ out["A"][j].call.kind = "scalar" /\ out["A"][j].call.parent_ix = i
          /\ out["A"][j].call.pos = 0
          /\ out["A"][m].call.kind = "scalar" /\ out["A"][m].call.parent_ix = i
          /\ out["A"][m].call.pos = 1

\* C22: begin_transaction called while the client has a session raises and
\* leaves the open transaction alone: it issues no COMMIT and no ROLLBACK,
\* the session stays set and the transaction stays open on the server
C22_NestedBeginKeepsOuter ==
    [][(last' = "begin_transaction" /\ _session_query # {}) =>
           /\ raised' # NoException
           /\ \A n \in 1..Len(issued') : issued'[n].sql \notin {CommitSql, RollbackSql}
           /\ _session_query' = _session_query
           /\ transactions' = transactions
      ]_vars

\* the session is set exactly when its transaction is open on the server; it
\* is set when a with-block has been entered and unset after a block is left,
\* after a commit, a rollback and a close
SessionTracksTransaction ==
    ~sql_failed =>
        /\ transactions = _session_query
        /\ (last = "begin_transaction" /\ raised = NoException) => _session_query # {}
        /\ last \in {"exit", "exit_raising", "commit_transaction", "rollback_transaction",
                     "close_connection"} => _session_query = {}

\* C23: as long as no statement fails, the session is set exactly while a
\* transaction is open: set on entering a with-block, unset after the block
\* is left either way, after commit_transaction, rollback_transaction and
\* close_connection; without a session commit_transaction does nothing and
\* rollback_transaction raises "Transaction was not started"
C23_SessionIffTransaction ==
    /\ []SessionTracksTransaction
    /\ [][(~sql_failed' /\ _session_query = {}) =>
              /\ last' = "commit_transaction" =>
                    /\ raised' = NoException /\ issued' = <<>>
                    /\ UNCHANGED <<_session_query, _client, transactions, committed,
                                   rolled_back, next_session>>
              /\ last' = "rollback_transaction" =>
                    /\ raised' = NotStarted /\ issued' = <<>>
                    /\ UNCHANGED <<_session_query, _client, transactions, committed,
                                   rolled_back, next_session>>
         ]_vars

\* no statement has failed, one transaction was committed and another rolled
\* back, the connection is closed and a rollback has just been refused
C23_Witness ==
    /\ ~sql_failed
    /\ committed # {} /\ rolled_back # {}
    /\ ~_client
    /\ last = "rollback_transaction" /\ raised = NotStarted

====
